---- MODULE Spec2Model ----
(***************************************************************************)
(* BDConverter: the POST /convert handler, its task classifier, the two    *)
(* task procedures (processMergeTask, processConvertTask) and the SSE      *)
(* progress channel (GET /events, sendProgress).                           *)
(*                                                                         *)
(* The asynchronous handler is cut at its await points: one action per     *)
(* stretch of synchronous code.  External tools (pdfinfo, pdftoppm,        *)
(* pdfimages, 7z, rar, tar, sharp) are black boxes whose outcome is a      *)
(* nondeterministic choice made by the action that awaits them.            *)
(***************************************************************************)
EXTENDS Integers, Sequences, FiniteSets, TLC

\* ---------------------------------------------------------------- bounds
MaxFiles == 2   \* files in one upload batch
MaxPages == 2   \* real pages of a document / images of an archive
MaxRange == 3   \* largest pageStart / pageEnd a request carries
MaxConns == 1   \* GET /events connections opened for the request identifier
MaxFinalPages == 1001  \* largest number of final pages a renumbering is given

\* ------------------------------------------------------------- constants
FEATURE_PROGRESS_THUMBNAIL == TRUE
sharp == TRUE

VARIABLES
    files,      \* req.files: the upload batch, in upload order
    cfg,        \* req.body options
    hpc,        \* position of the /convert handler
    cur,        \* idx of the task loop (1-based)
    task,       \* tasks[], each with the state of its procedure
    results,    \* results[]
    response,   \* the HTTP response of /convert
    uploaded,   \* indices of files still present in UPLOAD_DIR
    output,     \* OUTPUT_DIR: outputFileName -> what was persisted
    conn,       \* activeConnections[requestId]: 0 = no entry, else the connection
    nextConn,   \* connections opened so far on GET /events
    open,       \* connections whose socket is still open
    events,     \* the events handed to sendProgress by the latest step, in order
    written,    \* connections an event has been written to (res.write)
    rpc,        \* the numbering of a large page set: its position ("off": none)
    finalPageFiles, \* ... and the names of its page files, in order
    page        \* one page on its way through a transformation pipeline

vars == <<files, cfg, hpc, cur, task, results, response, uploaded, output,
          conn, nextConn, open, events, written, rpc, finalPageFiles, page>>

\* ------------------------------------------------------------ file names
ImageExts == {"jpg"}
Exts == {"jpg", "pdf", "cbz", "txt"}
Dirs == {"", "chapter1"}
Bases == {"a"}

\* originalname of an uploaded file: "<dir>/<base>.<ext>" (dir "" = no folder)
FileNames == [dir : Dirs, base : Bases, ext : Exts]

isImageFile(f) == f.ext \in ImageExts

isPdf(f) == f.ext = "pdf"

\* ------------------------------------------------------------ sequences
Range(s) == {s[i] : i \in DOMAIN s}

RECURSIVE AscSeq(_)
\* the elements of a set of integers in ascending order (array order of a filter)
AscSeq(S) ==
    IF S = {} THEN <<>>
    ELSE LET m == CHOOSE x \in S : \A y \in S : x <= y
         IN <<m>> \o AscSeq(S \ {m})

Max(a, b) == IF a >= b THEN a ELSE b

Min(a, b) == IF a <= b THEN a ELSE b

\* ------------------------------------------------------------ classifier
\* rootFiles: files whose name has a single path segment
rootFiles(fs) == {i \in DOMAIN fs : fs[i].dir = ""}

\* groups[rootDir]: files inside folder d (first path segment)
groups(fs, d) == {i \in DOMAIN fs : fs[i].dir = d}

RECURSIVE GroupKeys(_, _, _)
\* the keys of groups in the order the first loop creates them
GroupKeys(fs, i, seen) ==
    IF i > Len(fs) THEN <<>>
    ELSE IF fs[i].dir # "" /\ fs[i].dir \notin seen
         THEN <<fs[i].dir>> \o GroupKeys(fs, i + 1, seen \cup {fs[i].dir})
         ELSE GroupKeys(fs, i + 1, seen)

\* the folder names that are canonical array indices, in ascending order
IndexKeys == <<"1", "2">>

\* Object.entries(groups): an object enumerates its integer keys first, in
\* ascending numeric order, then its other keys in creation order
entries(fs) ==
    SelectSeq(IndexKeys, LAMBDA d : groups(fs, d) # {})
    \o SelectSeq(GroupKeys(fs, 1, {}), LAMBDA d : d \notin Range(IndexKeys))

\* the state of a task procedure that has not been called yet
NoResult == [name |-> <<>>, pages |-> 0, packed |-> {}, ok |-> FALSE]

\* no extraction promise has just settled
NoChain == [tools |-> <<>>, failed |-> 0]

\* no packer was invoked (yet)
NoPacker == [tool |-> "none", level |-> -1]

NewTask(type, members, name) ==
    [type |-> type, files |-> members, name |-> name,
     pc |-> "idle", err |-> "none",
     tempDir |-> FALSE, dir |-> {}, processed |-> {},
     T |-> 0, totalPages |-> 0, effectiveTotalPages |-> 0,
     idx |-> 0, timer |-> FALSE, wide |-> {}, chain |-> NoChain,
     packer |-> NoPacker, res |-> NoResult]

\* the root images made one task each
rootImagesEachAlone(fs) ==
    LET rootImages == AscSeq({i \in rootFiles(fs) : isImageFile(fs[i])})
    IN  [j \in 1..Len(rootImages) |->
            NewTask("MERGE", <<rootImages[j]>>, <<fs[rootImages[j]].base>>)]

rootImagesTask(fs) ==
    LET rootImages == AscSeq({i \in rootFiles(fs) : isImageFile(fs[i])})
    IN  IF Len(rootImages) = 0 THEN <<>>
        ELSE IF Len(rootImages) = 1
             THEN <<NewTask("MERGE", rootImages, <<fs[rootImages[1]].base>>)>>
             ELSE <<NewTask("MERGE", rootImages, <<fs[rootImages[1]].base, "_set">>)>>

RECURSIVE folderTasksUnguarded(_, _)
\* the folder loop without its `images.length > 0` test
folderTasksUnguarded(fs, keys) ==
    IF keys = <<>> THEN <<>>
    ELSE <<NewTask("MERGE",
                   AscSeq({i \in groups(fs, Head(keys)) : isImageFile(fs[i])}),
                   <<Head(keys)>>)>>
         \o folderTasksUnguarded(fs, Tail(keys))

RECURSIVE folderTasks(_, _)
folderTasks(fs, keys) ==
    IF keys = <<>> THEN <<>>
    ELSE LET images == AscSeq({i \in groups(fs, Head(keys)) : isImageFile(fs[i])})
         IN  (IF Len(images) > 0
              THEN <<NewTask("MERGE", images, <<Head(keys)>>)>>
              ELSE <<>>) \o folderTasks(fs, Tail(keys))

RECURSIVE rootDocTasks(_, _)
rootDocTasks(fs, docs) ==
    IF docs = <<>> THEN <<>>
    ELSE <<NewTask("CONVERT", <<Head(docs)>>, <<fs[Head(docs)].base>>)>>
         \o rootDocTasks(fs, Tail(docs))

\* the grouping logic with the folder loop moved before the root images
ClassifyFoldersFirst(fs) ==
    folderTasks(fs, entries(fs))
    \o rootImagesTask(fs)
    \o rootDocTasks(fs, AscSeq({i \in rootFiles(fs) : ~isImageFile(fs[i])}))

\* tasks[] as the grouping logic of /convert builds it
Classify(fs) ==
    rootImagesTask(fs)
    \o folderTasks(fs, entries(fs))
    \o rootDocTasks(fs, AscSeq({i \in rootFiles(fs) : ~isImageFile(fs[i])}))

\* ------------------------------------------------------ progress channel
Absent == -1

\* one event object; a field the code leaves out is Absent
Event(type, status, fileIndex, totalFiles, pct, pages, total) ==
    [type |-> type, status |-> status, currentFileIndex |-> fileIndex,
     totalFiles |-> totalFiles, currentPct |-> pct, currentPages |-> pages,
     totalPages |-> total, to |-> 0]

Log(msg) == Event("log", msg, Absent, Absent, Absent, Absent, Absent)

\* sendProgress without its guard: writing to a missing listener throws
sendProgressUnguarded == conn = 0

\* sendProgress never throws: a missing listener only drops the event
sendProgressThrows == FALSE

\* sendProgress with a buffer: an event that finds no listener is kept for the
\* next connection that registers
sendProgressBuffered(ev) == [ev EXCEPT !.to = IF conn # 0 THEN conn ELSE nextConn + 1]

\* sendProgress: written to the registered listener, or dropped (to = 0)
sendProgress(ev) == [ev EXCEPT !.to = conn]

sendAll(evs) == [i \in DOMAIN evs |-> sendProgress(evs[i])]

\* the action of sending evs, in order, from one stretch of code
Send(evs) ==
    /\ events' = sendAll(evs)
    /\ written' = IF evs # <<>> /\ conn # 0 THEN written \cup {conn} ELSE written

NoSend == UNCHANGED <<events, written>>

\* GET /events: register the new connection under the request identifier
EventsOpen ==
    /\ nextConn < MaxConns
    /\ nextConn' = nextConn + 1
    /\ conn' = nextConn + 1
    /\ open' = open \cup {nextConn + 1}
    /\ UNCHANGED <<page, rpc, finalPageFiles, files, cfg, hpc, cur, task, results, response, uploaded,
                   output, events, written>>

\* a further GET /events with the same requestId, after the first MaxConns
EventsReconnect ==
    /\ nextConn >= MaxConns
    /\ nextConn < MaxConns + 1
    /\ nextConn' = nextConn + 1
    /\ conn' = nextConn + 1
    /\ open' = open \cup {nextConn + 1}
    /\ UNCHANGED <<page, rpc, finalPageFiles, files, cfg, hpc, cur, task, results, response, uploaded,
                   output, events, written>>

\* req.on('close'): delete activeConnections[requestId]
EventsClose(c) ==
    /\ c \in open
    /\ open' = open \ {c}
    /\ conn' = 0
    /\ UNCHANGED <<page, rpc, finalPageFiles, files, cfg, hpc, cur, task, results, response, uploaded,
                   output, nextConn, events, written>>

\* --------------------------------------------------------------- helpers
NumTasks == Len(task)

\* Math.round(a / b * 100) for a >= 0, b > 0
RoundPct(a, b) == (200 * a + b) \div (2 * b)

\* a file of a temp directory: kind and n make its name, src and half say
\* which source page (and which half of it) its pixels come from
TempFile(kind, n, src, half) == [kind |-> kind, n |-> n, src |-> src, half |-> half]

\* the task loop without its await: it goes on as soon as the call was made
NotAwaited(k) == task[k].pc # "idle"

\* the await of the task loop: the call has settled
Awaited(k) == task[k].pc \in {"returned", "thrown"}

\* a rejected promise / a throw inside task k
\* the execFile callback without its clearInterval
clearIntervalMissing(progressInterval) == progressInterval

\* if (progressInterval) clearInterval(progressInterval)
clearInterval(progressInterval) == FALSE

\* an exception that is caught inside the procedure, which then goes on
ThrowSwallowed(k, why) ==
    task' = [task EXCEPT ![k].err = why]

Throw(k, why) ==
    task' = [task EXCEPT ![k].pc = "thrown", ![k].err = why,
                         ![k].timer = clearInterval(@)]

\* ---------------------------------------------------------- POST /convert
Batches == UNION {[1..n -> FileNames] : n \in 0..MaxFiles}

allowedFormats == {"cbz", "cbt", "cb7", "cbr", "pdf", "rar4", "folder"}

\* the archive compression levels a request carries
ArchiveLevels == {0, 1, 2, 3, 5, 7, 9}

\* req.body; "" / 0 / Absent stand for a field the request leaves out
\* the image formats a request asks for ("" = field left out)
ImgFormats == {"", "png", "tiff"}

\* the rotations a request asks for (0 = field left out)
Rotations == {0, 90}

\* the maximum widths a request asks for (0 = field left out)
MaxWidths == {0, 1000}

\* the resolutions a request asks for besides 'original' (0 = field left out)
Dpis == {0, 72}

Configs == [isOriginal : BOOLEAN, pageStart : 0..MaxRange, pageEnd : 0..MaxRange,
            splitDouble : {"off", "auto"}, readingDir : {"", "ltr", "rtl"},
            format : allowedFormats \cup {""},
            archiveCompression : ArchiveLevels \cup {Absent}]

\* the fields of a request that say how a page is transformed
PageOptions == [imgFormat : ImgFormats, rotation : Rotations, maxWidth : MaxWidths,
                colorMode : {"", "gray"}, dpi : Dpis]

\* the page transformations left at their defaults
DefaultPages == [imgFormat |-> "", rotation |-> 0, maxWidth |-> 0,
                 colorMode |-> "", dpi |-> 0]

\* req.body: the fields c with the page transformations p
Body(c, p) ==
    [isOriginal |-> c.isOriginal, pageStart |-> c.pageStart, pageEnd |-> c.pageEnd,
     splitDouble |-> c.splitDouble, readingDir |-> c.readingDir,
     format |-> c.format, archiveCompression |-> c.archiveCompression,
     imgFormat |-> p.imgFormat, rotation |-> p.rotation, maxWidth |-> p.maxWidth,
     colorMode |-> p.colorMode, dpi |-> p.dpi]

rotAngle == cfg.rotation

maxW == cfg.maxWidth

safeImgFormat == IF cfg.imgFormat = "" THEN "jpeg" ELSE cfg.imgFormat

\* dpiVal, 0 for null
dpiVal == IF cfg.isOriginal THEN 0 ELSE IF cfg.dpi # 0 THEN cfg.dpi ELSE 225

\* requests that carry no reading direction, format or archive compression
DefaultOutput(c) ==
    c.readingDir = "" /\ c.format = "" /\ c.archiveCompression = Absent

\* no page is under way
NoPage == [pc |-> "none"]

NoResponse == [status |-> 0, files |-> <<>>, error |-> FALSE]

InitWith(batches, configs) ==
    /\ files \in batches
    /\ cfg \in configs
    /\ hpc = "recv"
    /\ cur = 0
    /\ task = <<>>
    /\ results = <<>>
    /\ response = NoResponse
    /\ uploaded = DOMAIN files
    /\ output = {}
    /\ conn = 0
    /\ nextConn = 0
    /\ open = {}
    /\ events = <<>>
    /\ written = {}
    /\ rpc = "off"
    /\ finalPageFiles = <<>>
    /\ page = NoPage

\* requests that leave the page range empty and the double-page split off
PlainConfigs ==
    {Body(c, DefaultPages) : c \in
        {r \in Configs : /\ r.pageStart = 0 /\ r.pageEnd = 0 /\ r.splitDouble = "off"
                         /\ DefaultOutput(r)}}

\* requests with the default output: every mode, page range and split setting
TaskConfigs == {Body(c, DefaultPages) : c \in {r \in Configs : DefaultOutput(r)}}

\* requests that only choose the output: every mode, format and level
PackConfigs ==
    {Body(c, DefaultPages) : c \in
        {r \in Configs : /\ r.pageStart = 0 /\ r.pageEnd = 0 /\ r.splitDouble = "off"
                         /\ r.readingDir = ""}}

\* uploads that make exactly one task
OneTaskBatches == {b \in Batches : Len(Classify(b)) = 1}

\* names for the classifier alone: one more folder
ClassifierNames ==
    [dir : Dirs \cup {"chapter2"} \cup Range(IndexKeys), base : Bases, ext : Exts]

\* uploads for the classifier alone: one more file
ClassifierBatches == UNION {[1..n -> ClassifierNames] : n \in 0..(MaxFiles + 1)}

\* any upload, up to the end of the grouping logic
InitClassify == InitWith(ClassifierBatches, {c \in PlainConfigs : ~c.isOriginal})

\* a whole batch, with the progress client coming and going
Init == InitWith(Batches, PlainConfigs)

\* one task under every combination of options, no progress client
InitTask == InitWith(OneTaskBatches, TaskConfigs)

\* requests that only choose the split: every mode, split setting and
\* reading direction
SplitConfigs ==
    {Body(c, DefaultPages) : c \in
        {r \in Configs : /\ r.pageStart = 0 /\ r.pageEnd = 0
                         /\ r.format = "" /\ r.archiveCompression = Absent}}

\* one task under every split setting and reading direction
InitSplit == InitWith(OneTaskBatches, SplitConfigs)

\* requests for a PDF container: every mode and image format
PdfConfigs ==
    {Body(c, pg) : c \in {r \in Configs : /\ r.pageStart = 0 /\ r.pageEnd = 0
                                         /\ r.splitDouble = "off" /\ r.readingDir = ""
                                         /\ r.format = "pdf"
                                         /\ r.archiveCompression = Absent},
                  pg \in {o \in PageOptions : /\ o.rotation = 0 /\ o.maxWidth = 0
                                              /\ o.colorMode = "" /\ o.dpi = 0}}

\* one task packed as a PDF
InitPdf == InitWith(OneTaskBatches, PdfConfigs)

\* one task under every output format and archive compression level
InitPack == InitWith(OneTaskBatches, PackConfigs)

\* catch (error): 500 with the error text, then sweep every uploaded file
\* a catch block that logs the error and sends nothing
CatchSilent ==
    /\ UNCHANGED response
    /\ uploaded' = {}
    /\ hpc' = "done"

Catch ==
    /\ response' = [status |-> 500, files |-> <<>>, error |-> TRUE]
    /\ uploaded' = {}
    /\ hpc' = "done"

\* the handler up to its first await: no-files check, "Received" log,
\* grouping logic, "Identified" log
ConvertRequest ==
    /\ hpc = "recv"
    /\ IF Len(files) = 0
       THEN /\ response' = [status |-> 400, files |-> <<>>, error |-> TRUE]
            /\ hpc' = "done"
            /\ UNCHANGED <<cur, task, uploaded, events, written>>
       ELSE IF sendProgressThrows
       THEN Catch /\ UNCHANGED <<cur, task, events, written>>
       ELSE /\ task' = Classify(files)
            /\ cur' = 1
            /\ hpc' = "loop"
            /\ Send(<<Log("Received"), Log("Identified")>>)
            /\ UNCHANGED <<response, uploaded>>
    /\ UNCHANGED <<page, rpc, finalPageFiles, files, cfg, results, output, conn, nextConn, open>>

\* the task loop resumes from `await processXTask(...)`: push the Result and
\* go on with the next task, respond after the last one, or land in catch
LoopResume ==
    /\ hpc = "loop"
    /\ IF cur > NumTasks
       THEN /\ response' = [status |-> 200, files |-> results, error |-> FALSE]
            /\ hpc' = "done"
            /\ UNCHANGED <<cur, results, uploaded>>
       ELSE /\ Awaited(cur)
            /\ IF task[cur].pc = "thrown"
               THEN Catch /\ UNCHANGED <<cur, results>>
               ELSE /\ results' = Append(results, task[cur].res)
                    /\ cur' = cur + 1
                    /\ UNCHANGED <<hpc, response, uploaded>>
    /\ UNCHANGED <<page, rpc, finalPageFiles, files, cfg, task, output, conn, nextConn, open, events,
                   written>>

\* ------------------------------------------------- page transformations
isExotic(ext) == ext \in {"webp", "bmp"}

forceJpeg(ext) == isExotic(ext)

shouldUseSharp(ext) == sharp /\ (forceJpeg(ext) \/ rotAngle # 0 \/ ~cfg.isOriginal)

needsProcessing == ~cfg.isOriginal \/ rotAngle # 0

\* one call on a sharp pipeline, or one thing a child process does to a page
Op(op, arg) == [op |-> op, arg |-> arg]

abs(x) == IF x < 0 THEN -x ELSE x

\* Math.round(n / d) for positive n and d
round(n, d) == (2 * n + d) \div (2 * d)

\* if (rotAngle !== 0) pipeline.rotate(rotAngle)
rotate == IF rotAngle # 0 THEN <<Op("rotate", rotAngle)>> ELSE <<>>

\* Math.abs(targetDensity - sourceDensity) / sourceDensity > 0.02
densityDiffers(sourceDensity, targetDensity) ==
    abs(targetDensity - sourceDensity) * 100 > 2 * sourceDensity

\* the branch taken when maxW is set
resizeMaxW(metadata) ==
    (IF metadata.width > maxW THEN <<Op("resize", maxW)>> ELSE <<>>)
    \o (IF dpiVal # 0 THEN <<Op("density", dpiVal)>> ELSE <<>>)

\* the branch taken when maxW is not set and dpiVal is
resizeDensity(metadata) ==
    LET sourceDensity == IF metadata.density # 0 THEN metadata.density ELSE 72
        targetDensity == dpiVal
        newWidth == round(metadata.width * targetDensity, sourceDensity)
    IN  (IF densityDiffers(sourceDensity, targetDensity)
         THEN <<Op("resize", newWidth)>> ELSE <<>>)
        \o <<Op("density", targetDensity)>>

\* the resize logic that rescales to the density whenever maxW does not apply
resizeEither(metadata) ==
    IF maxW > 0 /\ metadata.width > maxW THEN resizeMaxW(metadata)
    ELSE IF dpiVal # 0 THEN resizeDensity(metadata)
    ELSE <<>>

\* "Resize logic (MaxWidth takes precedence over DPI-based resizing)"
resize(metadata) ==
    IF maxW > 0 THEN resizeMaxW(metadata)
    ELSE IF dpiVal # 0 THEN resizeDensity(metadata)
    ELSE <<>>

\* if (colorMode === 'gray') pipeline.grayscale()
grayscale == IF cfg.colorMode = "gray" THEN <<Op("grayscale", 0)>> ELSE <<>>

\* the encoder processMergeTask ends the pipeline with
mergeFormat(ext) ==
    IF forceJpeg(ext) THEN "jpeg"
    ELSE IF safeImgFormat \in {"png", "tiff"} THEN safeImgFormat ELSE "jpeg"

\* the extension of the file processMergeTask writes for a source image
mergeOutExt(ext) ==
    IF shouldUseSharp(ext)
    THEN (IF mergeFormat(ext) = "jpeg" THEN "jpg" ELSE mergeFormat(ext))
    ELSE ext

\* what processMergeTask does to one image
mergePipeline(ext, metadata) ==
    IF shouldUseSharp(ext)
    THEN rotate \o resize(metadata) \o grayscale \o <<Op(mergeFormat(ext), 0)>>
    ELSE <<Op("copy", 0)>>

\* the extension of the file the archive loop writes for an extracted image
archiveOutExt(ext) ==
    IF needsProcessing /\ sharp
    THEN (IF safeImgFormat = "jpeg" THEN "jpg" ELSE safeImgFormat)
    ELSE ext

\* what the archive loop does to one extracted image
archivePipeline(ext, metadata) ==
    IF needsProcessing /\ sharp
    THEN rotate \o resize(metadata) \o grayscale \o <<Op(safeImgFormat, 0)>>
    ELSE <<Op("copy", 0)>>

\* the extension of the files the rasterizer writes (pdfimages -all writes
\* each embedded image in its own format, taken here to be jpeg)
rasterOutExt ==
    IF cfg.isOriginal THEN "jpg"
    ELSE CASE safeImgFormat = "png" -> "png"
           [] safeImgFormat = "tiff" -> "tif"
           [] OTHER -> "jpg"

\* what the rasterizer, then the rotation pass, do to one page of a PDF
rasterPipeline ==
    (IF cfg.isOriginal THEN <<Op("extract", 0)>>
     ELSE <<Op("render", dpiVal)>>
          \o (IF maxW > 0 THEN <<Op("resize", maxW)>> ELSE <<>>)
          \o grayscale
          \o <<Op(safeImgFormat, 0)>>)
    \o (IF sharp THEN rotate ELSE <<>>)

\* where a page comes from
PageKinds == {"MERGE", "ARCHIVE", "PDF"}

\* the extensions of the pages of each kind of source
SourceExts(kind) == IF kind = "PDF" THEN {"pdf"} ELSE {"jpg", "webp"}

\* metadata.width of a source image
Widths == {800, 1200}

\* metadata.density of a source image (0 = none)
Densities == {0, 72, 73, 300}

\* the pages a pipeline is run on
Pages ==
    {pg \in [pc : {"source"}, kind : PageKinds, ext : {"jpg", "webp", "pdf"},
             width : Widths, density : Densities, ops : {<<>>}, outExt : {""}] :
        pg.ext \in SourceExts(pg.kind)}

\* requests that only say how pages are transformed
PageConfigs ==
    {Body(c, pg) : c \in {r \in Configs : /\ r.pageStart = 0 /\ r.pageEnd = 0
                                         /\ r.splitDouble = "off" /\ DefaultOutput(r)},
                  pg \in PageOptions}

\* one page of any source under any transformation request
InitPage ==
    /\ files = <<>>
    /\ cfg \in PageConfigs
    /\ hpc = "recv"
    /\ cur = 0
    /\ task = <<>>
    /\ results = <<>>
    /\ response = NoResponse
    /\ uploaded = {}
    /\ output = {}
    /\ conn = 0
    /\ nextConn = 0
    /\ open = {}
    /\ events = <<>>
    /\ written = {}
    /\ rpc = "off"
    /\ finalPageFiles = <<>>
    /\ page \in Pages

\* the page has gone through ops and is written with extension ext
Transformed(ops, ext) ==
    /\ page' = [page EXCEPT !.pc = "done", !.ops = ops, !.outExt = ext]
    /\ UNCHANGED <<files, cfg, hpc, cur, task, results, response, uploaded, output,
                   conn, nextConn, open, events, written, rpc, finalPageFiles>>

\* processMergeTask: one turn of the image loop
MergeTransform ==
    /\ page.pc = "source" /\ page.kind = "MERGE"
    /\ Transformed(mergePipeline(page.ext, page), mergeOutExt(page.ext))

\* processConvertTask: one turn of the archive loop
ArchiveTransform ==
    /\ page.pc = "source" /\ page.kind = "ARCHIVE"
    /\ Transformed(archivePipeline(page.ext, page), archiveOutExt(page.ext))

\* processConvertTask: the rasterizer and the rotation pass, for one page
RasterTransform ==
    /\ page.pc = "source" /\ page.kind = "PDF"
    /\ Transformed(rasterPipeline, rasterOutExt)

NextPage == MergeTransform \/ ArchiveTransform \/ RasterTransform

SpecPage == InitPage /\ [][NextPage]_vars

\* ------------------------------------------------- processConvertTask
\* pStart / pEnd: the requested bound, or its default when the field is empty
pStart == IF cfg.pageStart # 0 THEN cfg.pageStart ELSE 1

pEnd(total) == IF cfg.pageEnd # 0 THEN cfg.pageEnd ELSE total

\* effectiveTotalPages of a PDF; totalPages = 0 stands for null (unknown)
EffectiveTotalPages(totalPages) ==
    IF totalPages = 0 THEN 0
    ELSE LET actualStart == Max(1, pStart)
             actualEnd == Min(totalPages, pEnd(totalPages))
         IN  IF actualEnd >= actualStart THEN actualEnd - actualStart + 1
             ELSE totalPages

\* the pages `-f pageStart -l pageEnd` asks the rasterizer for, of a document
\* that really has T pages
RequestedPages(T) == {p \in 1..T : p >= pStart /\ p <= pEnd(T)}

\* the page images of a temp directory (not thumb_*), as imgFiles sorts them
PageFiles(dir) == {f \in dir : f.kind = "page"}

RECURSIVE SortByN(_)
SortByN(S) ==
    IF S = {} THEN <<>>
    ELSE LET m == CHOOSE x \in S : \A y \in S : x.n <= y.n
         IN <<m>> \o SortByN(S \ {m})

\* the call: "Analyzing" event, temp directory; an archive goes on to its
\* "Extracting archive..." log and its fast thumbnail (awaited)
ConvertBegin(k) ==
    /\ hpc = "loop" /\ cur = k /\ k <= NumTasks
    /\ task[k].type = "CONVERT" /\ task[k].pc = "idle"
    /\ LET fileIsPdf == isPdf(files[task[k].files[1]])
       IN  \E thumb \in BOOLEAN :
             /\ thumb => ~fileIsPdf /\ FEATURE_PROGRESS_THUMBNAIL /\ sharp
             /\ IF sendProgressThrows
                THEN thumb = FALSE /\ Throw(k, "send") /\ NoSend
                ELSE /\ task' = [task EXCEPT
                           ![k].pc = IF fileIsPdf THEN "pdfinfo" ELSE "extract",
                           ![k].tempDir = TRUE]
                     /\ Send(<<Event("progress", "Analyzing", k, NumTasks, 0,
                                     Absent, Absent)>>
                             \o (IF fileIsPdf THEN <<>>
                                 ELSE <<Log("Extracting archive")>>)
                             \o (IF ~fileIsPdf /\ FEATURE_PROGRESS_THUMBNAIL /\ sharp
                                 THEN <<Log("Generating preview")>> ELSE <<>>)
                             \o (IF thumb
                                 THEN <<Event("thumbnail-init", "", Absent, Absent,
                                              Absent, Absent, Absent)>>
                                 ELSE <<>>))
    /\ UNCHANGED <<page, rpc, finalPageFiles, files, cfg, hpc, cur, results, response, uploaded, output,
                   conn, nextConn, open>>

\* await getPageCount: pdfinfo reports the real page count T, or fails (null)
GetPageCount(k) ==
    /\ k \in DOMAIN task /\ task[k].pc = "pdfinfo"
    /\ \E T \in 1..MaxPages, known \in BOOLEAN :
         LET totalPages == IF known THEN T ELSE 0
         IN  IF sendProgressThrows
             THEN Throw(k, "send") /\ NoSend
             ELSE /\ task' = [task EXCEPT
                        ![k].pc = "thumb", ![k].T = T,
                        ![k].totalPages = totalPages,
                        ![k].effectiveTotalPages = EffectiveTotalPages(totalPages)]
                  /\ Send(<<Log("Pages detected"), Log("Generating preview")>>)
    /\ UNCHANGED <<page, rpc, finalPageFiles, files, cfg, hpc, cur, results, response, uploaded, output,
                   conn, nextConn, open>>

\* the thumb_* files the start-of-task preview can leave in the temp directory
ThumbOutcomes ==
    IF ~FEATURE_PROGRESS_THUMBNAIL THEN {{}}
    ELSE IF cfg.isOriginal
         THEN {{}, {TempFile("thumb_color", 1, 0, "W")}}
         ELSE {{}, {TempFile("thumb_gray", 1, 0, "W")},
               {TempFile("thumb_gray", 1, 0, "W"), TempFile("thumb_color", 1, 0, "W")}}

\* await makeThumb (gray, then color); then the "Conversion in progress" log,
\* the polling timer and the start of the rasterizer / extractor
ProgressThumbnail(k) ==
    /\ k \in DOMAIN task /\ task[k].pc = "thumb"
    /\ \E thumbs \in ThumbOutcomes :
         IF sendProgressThrows
         THEN Throw(k, "send") /\ NoSend
         ELSE /\ task' = [task EXCEPT
                    ![k].pc = "raster",
                    ![k].dir = thumbs,
                    ![k].timer = (task[k].totalPages # 0)]
              /\ Send(
                    (IF \E f \in thumbs : f.kind = "thumb_color"
                     THEN <<Event("thumbnail-init", "", Absent, Absent, Absent, Absent, Absent)>>
                     ELSE <<>>)
                    \o <<Log("Conversion in progress")>>)
    /\ UNCHANGED <<page, rpc, finalPageFiles, files, cfg, hpc, cur, results, response, uploaded, output,
                   conn, nextConn, open>>

\* the running tool materializes one more page-N file
RasterEmit(k) ==
    /\ k \in DOMAIN task /\ task[k].pc = "raster"
    /\ LET have == {f.n : f \in PageFiles(task[k].dir)}
           todo == IF cfg.isOriginal
                   THEN {n \in 1..MaxPages : n = Cardinality(have) + 1}
                   ELSE {p \in RequestedPages(task[k].T) :
                            /\ p \notin have
                            /\ \A q \in RequestedPages(task[k].T) : q < p => q \in have}
       IN  \E n \in todo :
             task' = [task EXCEPT ![k].dir = @ \cup {TempFile("page", n, n, "W")}]
    /\ UNCHANGED <<page, rpc, finalPageFiles, files, cfg, hpc, cur, results, response, uploaded, output,
                   conn, nextConn, open, events, written>>

\* a tick of progressInterval: count the page files, send the estimate
PollTick(k) ==
    /\ k \in DOMAIN task /\ task[k].timer
    /\ LET currentPages == Cardinality(PageFiles(task[k].dir))
           eff == task[k].effectiveTotalPages
           progress == IF eff # 0 THEN Min(100, RoundPct(currentPages, eff)) ELSE 0
       IN  Send(<<Event("progress", "", k, NumTasks, progress,
                                     currentPages, eff)>>)
    /\ UNCHANGED <<page, rpc, finalPageFiles, files, cfg, hpc, cur, task, results, response, uploaded,
                   output, conn, nextConn, open>>

\* the execFile callback: the interval is cleared, the promise settles
RasterDone(k) ==
    /\ k \in DOMAIN task /\ task[k].pc = "raster"
    /\ \E err \in BOOLEAN :
         IF err
         THEN Throw(k, "tool")
         ELSE /\ cfg.isOriginal
                 \/ /\ RequestedPages(task[k].T) # {}
                    /\ {f.n : f \in PageFiles(task[k].dir)} = RequestedPages(task[k].T)
              /\ task' = [task EXCEPT ![k].pc = "pages",
                                       ![k].timer = clearInterval(@)]
    /\ UNCHANGED <<page, rpc, finalPageFiles, files, cfg, hpc, cur, results, response, uploaded, output,
                   conn, nextConn, open, events, written>>

\* the pages of 1..n whose width / height ratio is > 1.2.  Only the split
\* loop ever reads the ratio of a page: without splitDouble = 'auto' it is
\* left out of the state.
WidePages(n) == IF cfg.splitDouble = "auto" THEN SUBSET (1..n) ELSE {{}}

\* (readingDir || 'ltr') === 'ltr'
readingLtr == (IF cfg.readingDir = "" THEN "ltr" ELSE cfg.readingDir) = "ltr"

RECURSIVE Expand(_, _, _)
\* expandedFiles of the split loop over imgFiles[0 .. limit-1]; split: the
\* positions whose ratio is > 1.2 and whose halves sharp extracted
Expand(imgFiles, limit, split) ==
    IF limit = 0 THEN <<>>
    ELSE LET f == imgFiles[limit]
             leftName == TempFile("split_a", limit, f.src, "L")
             rightName == TempFile("split_b", limit, f.src, "R")
         IN  Expand(imgFiles, limit - 1, split)
             \o (IF limit \in split
                 THEN (IF readingLtr THEN <<leftName, rightName>>
                       ELSE <<rightName, leftName>>)
                 ELSE <<f>>)

\* a scan whose result is never checked
noImagesUnchecked(imgFiles) == FALSE

\* if (imgFiles.length === 0) throw
noImages(imgFiles) == Len(imgFiles) = 0

\* after the tool: scan, empty check, optional split, renumbering, then the
\* "Assembling" event
PagesRenumber(k) ==
    /\ k \in DOMAIN task /\ task[k].pc = "pages"
    /\ LET imgFiles == SortByN(PageFiles(task[k].dir))
           eff == task[k].effectiveTotalPages
           limit == Min(Len(imgFiles), eff)
           splitting == cfg.splitDouble = "auto" /\ sharp /\ ~cfg.isOriginal
       IN  IF noImages(imgFiles)
           THEN Throw(k, "empty") /\ NoSend
           ELSE \E wide \in WidePages(Len(imgFiles)), failed \in SUBSET (1..limit) :
                  LET split == IF splitting THEN (wide \cap (1..limit)) \ failed ELSE {}
                      expandedFiles == Expand(imgFiles, limit, split)
                      renumbered == {TempFile("num", i, expandedFiles[i].src,
                                              expandedFiles[i].half) :
                                       i \in DOMAIN expandedFiles}
                      untouched == task[k].dir \ {imgFiles[i] : i \in 1..limit}
                  IN  IF sendProgressThrows
                      THEN Throw(k, "send") /\ NoSend
                      ELSE /\ failed \subseteq (IF splitting THEN wide ELSE {})
                           /\ task' = [task EXCEPT
                                 ![k].pc = "assemble",
                                 ![k].wide = {imgFiles[i].src : i \in wide},
                                 ![k].dir = untouched \cup renumbered]
                           /\ Send(<<Event("progress", "Assembling", k,
                                                        NumTasks, 100, eff, eff)>>)
    /\ UNCHANGED <<page, rpc, finalPageFiles, files, cfg, hpc, cur, results, response, uploaded, output,
                   conn, nextConn, open>>

\* effectiveTotalPages of an archive with totalExtracted recognized images
ArchiveEffective(totalExtracted) ==
    LET effStart == Max(1, pStart)
        effEnd == Min(totalExtracted, pEnd(totalExtracted))
    IN  Max(0, effEnd - effStart + 1)

\* the extractors the extraction promise tries, in order
ExtractorChain(isRar) == IF isRar THEN <<"rar", "unrar", "7z">> ELSE <<"7z">>

\* an extraction that gives up as soon as its first extractor fails
primaryRejects(chain, failed) == failed >= 1

\* the promise rejects when the last extractor of the chain has failed too
chainRejects(chain, failed) == failed = Len(chain)

\* getAllImages(tempDir): the recognized images found in the temp directory
getAllImages(dir) == {f \in dir : f.kind = "img"}

\* the extraction promise settles (isRar: rar signature or .cbr/.rar; failed:
\* how many extractors of the chain failed in a row); then getAllImages, the
\* range and its empty check, mkdir processed
Extract(k) ==
    /\ k \in DOMAIN task /\ task[k].pc = "extract"
    /\ \E isRar \in BOOLEAN, found \in 0..MaxPages :
       \E failed \in 0..Len(ExtractorChain(isRar)) :
         LET chain == [tools |-> ExtractorChain(isRar), failed |-> failed]
             dir == {TempFile("img", i, i, "W") : i \in 1..found}
             totalExtracted == Cardinality(getAllImages(dir))
         IN  IF chainRejects(ExtractorChain(isRar), failed)
             THEN /\ found = 0
                  /\ task' = [task EXCEPT ![k].pc = "thrown", ![k].err = "tool",
                                           ![k].chain = chain]
                  /\ NoSend
             ELSE IF sendProgressThrows
             THEN Throw(k, "send") /\ NoSend
             ELSE /\ Send(<<Log("Images found")>>)
                  /\ IF ArchiveEffective(totalExtracted) = 0
                     THEN task' = [task EXCEPT
                              ![k].pc = "thrown", ![k].err = "empty",
                              ![k].chain = chain,
                              ![k].T = totalExtracted,
                              ![k].dir = dir]
                     ELSE task' = [task EXCEPT
                              ![k].pc = "transform", ![k].idx = 0,
                              ![k].chain = chain,
                              ![k].T = totalExtracted,
                              ![k].effectiveTotalPages = ArchiveEffective(totalExtracted),
                              ![k].dir = dir]
    /\ UNCHANGED <<page, rpc, finalPageFiles, files, cfg, hpc, cur, results, response, uploaded, output,
                   conn, nextConn, open>>

\* one in-range page of the archive loop (idx = processedCount); after the
\* last one: deleteFolderContents, the processed files move up, "Assembling"
ArchivePage(k) ==
    /\ k \in DOMAIN task /\ task[k].pc = "transform"
    /\ LET eff == task[k].effectiveTotalPages
           currentNum == Max(1, pStart) + task[k].idx
           processedCount == task[k].idx + 1
           pageFile == TempFile("num", processedCount, currentNum, "W")
           last == processedCount = eff
           progress(outcome) ==
                       IF outcome = "written" /\ processedCount % 5 = 0
                       THEN <<Event("progress", "", k, NumTasks,
                                    RoundPct(processedCount, eff), processedCount, eff)>>
                       ELSE <<>>
           assembling == IF last
                         THEN <<Event("progress", "Assembling", k, NumTasks, 100, eff, eff)>>
                         ELSE <<>>
       IN  \E outcome \in {"written", "zero-length", "rejected"},
              wide \in WidePages(1) :
             /\ outcome # "written" => needsProcessing /\ sharp
             /\ IF \/ outcome = "rejected"
                   \/ sendProgressThrows /\ progress(outcome) \o assembling # <<>>
                THEN /\ task' = [task EXCEPT
                            ![k].pc = "thrown", ![k].chain = NoChain,
                            ![k].err = IF outcome = "rejected" THEN "transform" ELSE "send"]
                     /\ NoSend
                ELSE LET processed == task[k].processed
                                      \cup (IF outcome = "written" THEN {pageFile} ELSE {})
                     IN  /\ task' = [task EXCEPT
                                ![k].idx = processedCount,
                                ![k].chain = NoChain,
                                ![k].wide = @ \cup (IF wide = {} THEN {} ELSE {currentNum}),
                                ![k].processed = IF last THEN {} ELSE processed,
                                ![k].dir = IF last THEN processed ELSE @,
                                ![k].pc = IF last THEN "assemble" ELSE @]
                         /\ IF progress(outcome) \o assembling = <<>> THEN NoSend
                            ELSE Send(progress(outcome) \o assembling)
    /\ UNCHANGED <<page, rpc, finalPageFiles, files, cfg, hpc, cur, results, response, uploaded, output,
                   conn, nextConn, open>>

safeFormat == IF cfg.format \in allowedFormats THEN cfg.format ELSE "cbz"

archCompVal == IF cfg.archiveCompression # Absent THEN cfg.archiveCompression ELSE 5

\* the output name built from the requested format as sent
outputFileNameAsRequested(k) ==
    IF cfg.format = "folder" THEN task[k].name
    ELSE task[k].name \o <<IF cfg.format = "rar4" THEN "cbr" ELSE cfg.format>>

outputFileName(k) ==
    IF safeFormat = "folder" THEN task[k].name
    ELSE task[k].name \o <<IF safeFormat = "rar4" THEN "cbr" ELSE safeFormat>>

\* the level option without the original-mode override
levelRequested == archCompVal

\* `level` of the 7z packers (cb7, cbz)
level == IF cfg.isOriginal THEN 0 ELSE archCompVal

\* rarComp of processConvertTask (cbr, rar4)
rarComp ==
    IF cfg.isOriginal THEN 0
    ELSE CASE archCompVal = 0 -> 0
           [] archCompVal = 1 -> 1
           [] archCompVal = 3 -> 2
           [] archCompVal = 5 -> 3
           [] archCompVal = 7 -> 4
           [] archCompVal = 9 -> 5
           [] OTHER -> 3

\* rarComp of processMergeTask (cbr, rar4)
mergeRarComp == IF cfg.isOriginal THEN 0 ELSE IF archCompVal = 0 THEN 0 ELSE 3

\* the packer the format selects and the level it is invoked with
Packer(type) ==
    CASE safeFormat = "folder" -> NoPacker
      [] safeFormat = "pdf" -> [tool |-> "pdfkit", level |-> Absent]
      [] safeFormat = "cbt" -> [tool |-> "tar", level |-> Absent]
      [] safeFormat = "cb7" -> [tool |-> "7z", level |-> level]
      [] safeFormat = "cbr" ->
            [tool |-> "rar", level |-> IF type = "MERGE" THEN mergeRarComp ELSE rarComp]
      [] safeFormat = "rar4" ->
            [tool |-> "rar4", level |-> IF type = "MERGE" THEN mergeRarComp ELSE rarComp]
      [] OTHER -> [tool |-> "zip", level |-> level]

\* the extension of a file of the temp directory of task k
extOf(k, f) ==
    CASE f.kind \in {"thumb_gray", "thumb_color", "split_a", "split_b"} -> "jpg"
      [] f.kind = "page" -> rasterOutExt
      [] f.kind = "img" -> "jpg"
      [] OTHER ->
           IF task[k].type = "MERGE" THEN mergeOutExt(files[f.src].ext)
           ELSE IF ~isPdf(files[task[k].files[1]]) THEN archiveOutExt("jpg")
           ELSE IF f.half # "W" THEN "jpg"
           ELSE rasterOutExt

\* the images the PDF packer makes pages of, in the order of their names
\* (a digit sorts before "thumb_")
pdfImages(k, dir) ==
    LET images == {f \in dir : extOf(k, f) \in {"jpg", "jpeg", "png"}}
    IN  SortByN({f \in images : f.kind \notin {"thumb_gray", "thumb_color"}})
        \o SortByN({f \in images : f.kind = "thumb_color"})
        \o SortByN({f \in images : f.kind = "thumb_gray"})

\* what ends up under the output name: the archive of everything in the temp
\* directory, the pages of the PDF, or (folder) a copy of the images of the
\* directory that are not thumb_*
Persisted(k, dir) ==
    IF safeFormat = "folder"
    THEN {f \in dir : f.kind \notin {"thumb_gray", "thumb_color"}}
    ELSE IF safeFormat = "pdf" THEN Range(pdfImages(k, dir))
    ELSE dir

Persist(k) ==
    {o \in output : o.name # outputFileName(k)}
    \cup {[name |-> outputFileName(k), task |-> k, files |-> Persisted(k, task[k].dir)]}

\* the packer promise settles; then persist, final thumbnail, cleanup, return
ConvertAssemble(k) ==
    /\ k \in DOMAIN task /\ task[k].pc = "assemble" /\ task[k].type = "CONVERT"
    /\ \E err \in BOOLEAN :
         IF err
         THEN /\ Packer("CONVERT") # NoPacker
              /\ task' = [task EXCEPT ![k].pc = "thrown", ![k].err = "tool",
                                       ![k].packer = Packer("CONVERT")]
              /\ UNCHANGED <<output, uploaded>>
         ELSE /\ output' = Persist(k)
              /\ uploaded' = uploaded \ Range(task[k].files)
              /\ task' = [task EXCEPT
                    ![k].pc = "returned", ![k].tempDir = FALSE, ![k].dir = {},
                    ![k].packer = Packer("CONVERT"),
                    ![k].res = [name |-> outputFileName(k),
                                pages |-> task[k].effectiveTotalPages,
                                packed |-> Persisted(k, task[k].dir), ok |-> TRUE]]
    /\ UNCHANGED <<page, rpc, finalPageFiles, files, cfg, hpc, cur, results, response, conn, nextConn,
                   open, events, written>>

\* ------------------------------------------------------------ numbering
RECURSIVE toString(_)
\* Number.prototype.toString of n >= 0: its decimal digits
toString(n) == IF n < 10 THEN <<n>> ELSE toString(n \div 10) \o <<n % 10>>

RECURSIVE padStart(_, _)
\* String.prototype.padStart(w, '0')
padStart(str, w) == IF Len(str) >= w THEN str ELSE padStart(<<0>> \o str, w)

\* the number without the minimum width of 3
numUnpadded(idx, padding) == padStart(toString(idx + 1), padding)

\* num = (idx + 1).toString().padStart(Math.max(3, padding), '0')
num(idx, padding) == padStart(toString(idx + 1), Max(3, padding))

\* a file name: text before the number, the digits of the number, extension
FileName(prefix, digits, ext) == [prefix |-> prefix, digits |-> digits, ext |-> ext]

\* the page images the rasterizer leaves for a document of n pages:
\* <outputPrefix>-<page>.jpg, the page number padded to the digits of n
RasterNames(n) ==
    [i \in 1..n |-> FileName("page-", padStart(toString(i), Len(toString(n))), "jpg")]

RECURSIVE parseNum(_)
\* the number a run of digits stands for (numeric collation of localeCompare)
parseNum(digits) ==
    IF digits = <<>> THEN 0
    ELSE 10 * parseNum(SubSeq(digits, 1, Len(digits) - 1)) + digits[Len(digits)]

\* where each entry of a listing goes when the listing is sorted by number:
\* one more than the count of entries with a smaller number
sortRanks(keys) ==
    [i \in DOMAIN keys |-> Cardinality({j \in DOMAIN keys : keys[j] < keys[i]}) + 1]
    \o <<>>

\* the listing with every entry moved to its rank
sortedBy(listing, ranks) ==
    [r \in DOMAIN listing |-> listing[CHOOSE i \in DOMAIN listing : ranks[i] = r]]

\* a directory listing in the opposite order
Reverse(listing) ==
    [i \in DOMAIN listing |-> listing[Len(listing) + 1 - i]]

\* imgFiles.sort(localeCompare numeric) of names that differ in their number
sortNumeric(listing) ==
    sortedBy(listing,
             sortRanks([i \in DOMAIN listing |-> parseNum(listing[i].digits)] \o <<>>))
    \o <<>>

\* finalPageFiles.forEach: rename each page to <num><ext>
renumber(pageFiles) ==
    LET padding == Len(toString(Len(pageFiles)))
    IN  [i \in 1..Len(pageFiles) |->
            FileName("", num(i - 1, padding), pageFiles[i].ext)]

\* the page counts a numbering is tried on: small ones and the ones around
\* a change of width
PageCounts == (1..30) \cup (95..105) \cup (995..MaxFinalPages)

InitRenumber ==
    /\ files = <<>>
    /\ cfg \in {c \in PlainConfigs : ~c.isOriginal}
    /\ hpc = "recv"
    /\ cur = 0
    /\ task = <<>>
    /\ results = <<>>
    /\ response = NoResponse
    /\ uploaded = {}
    /\ output = {}
    /\ conn = 0
    /\ nextConn = 0
    /\ open = {}
    /\ events = <<>>
    /\ written = {}
    /\ rpc = "scanned"
    /\ \E n \in PageCounts : finalPageFiles = RasterNames(n)
    /\ page = NoPage

\* processConvertTask: the final pages are renamed in sequence order
RenumberPages ==
    /\ rpc = "scanned"
    /\ finalPageFiles' = renumber(finalPageFiles)
    /\ rpc' = "renamed"
    /\ UNCHANGED <<page, files, cfg, hpc, cur, task, results, response, uploaded,
                   output, conn, nextConn, open, events, written>>

\* processMergeTask: the images are written under num, padding from their count
NumberMergePages ==
    /\ rpc = "scanned"
    /\ finalPageFiles' =
          [i \in 1..Len(finalPageFiles) |->
              FileName("", num(i - 1, Len(toString(Len(finalPageFiles)))),
                       finalPageFiles[i].ext)]
    /\ rpc' = "merged"
    /\ UNCHANGED <<page, files, cfg, hpc, cur, task, results, response, uploaded,
                   output, conn, nextConn, open, events, written>>

\* the numbered directory is scanned, sorted and renumbered once more
RenumberAgain ==
    /\ rpc \in {"renamed", "merged"}
    /\ \E readdir \in {finalPageFiles, Reverse(finalPageFiles)} :
         finalPageFiles' = renumber(sortNumeric(readdir))
    /\ rpc' = "again"
    /\ UNCHANGED <<page, files, cfg, hpc, cur, task, results, response, uploaded,
                   output, conn, nextConn, open, events, written>>

NextRenumber == RenumberPages \/ NumberMergePages \/ RenumberAgain

SpecRenumber == InitRenumber /\ [][NextRenumber]_vars

\* ------------------------------------------------------ external tools
\* the timeout option of the main execFile, in ms
hardTimeout == 1800000

\* the packers that are child processes (pdf is written in-process)
ExternalPackers == {"tar", "7z", "rar", "rar4", "zip"}

\* the child process task k is waiting for ("none": it is not waiting for one)
AwaitedTool(k) ==
    CASE task[k].pc = "pdfinfo" -> "pdfinfo"
      [] task[k].pc = "thumb" /\ FEATURE_PROGRESS_THUMBNAIL -> "makeThumb"
      [] task[k].pc = "raster" -> "rasterizer"
      [] task[k].pc = "extract" -> "extractor"
      [] task[k].pc = "assemble" /\ Packer(task[k].type).tool \in ExternalPackers
            -> "packer"
      [] OTHER -> "none"

\* the timeout option its exec / execFile call passes (0: none, the default)
execTimeout(tool) == IF tool = "rasterizer" THEN hardTimeout ELSE 0

\* the child process never exits: with a timeout it is killed and the
\* callback gets the error; without one the callback never runs and the
\* promise the task awaits stays pending
ToolHangs(k) ==
    /\ k \in DOMAIN task /\ AwaitedTool(k) # "none"
    /\ IF execTimeout(AwaitedTool(k)) > 0
       THEN Throw(k, "tool")
       ELSE task' = [task EXCEPT ![k].pc = "blocked"]
    /\ UNCHANGED <<page, rpc, finalPageFiles, files, cfg, hpc, cur, results, response, uploaded, output,
                   conn, nextConn, open, events, written>>

\* --------------------------------------------------- processMergeTask
\* the call: "Starting task" log, temp directory, preview of the first image
\* (awaited; a failure is only logged)
MergeBegin(k) ==
    /\ hpc = "loop" /\ cur = k /\ k <= NumTasks
    /\ task[k].type = "MERGE" /\ task[k].pc = "idle"
    /\ \E thumb \in BOOLEAN :
         /\ thumb => FEATURE_PROGRESS_THUMBNAIL /\ sharp
         /\ IF sendProgressThrows
            THEN thumb = FALSE /\ Throw(k, "send") /\ NoSend
            ELSE /\ task' = [task EXCEPT
                       ![k].pc = "merge", ![k].tempDir = TRUE, ![k].idx = 0]
                 /\ Send(<<Log("Starting task")>>
                         \o (IF FEATURE_PROGRESS_THUMBNAIL /\ sharp
                             THEN <<Log("Generating preview")>> ELSE <<>>)
                         \o (IF thumb
                             THEN <<Event("thumbnail-init", "", Absent, Absent,
                                          Absent, Absent, Absent)>>
                             ELSE <<>>))
    /\ UNCHANGED <<page, rpc, finalPageFiles, files, cfg, hpc, cur, results, response, uploaded, output,
                   conn, nextConn, open>>

\* one image of the loop: its progress event, then the transform or the copy;
\* after the last one the "Assembling archive..." event
MergePage(k) ==
    /\ k \in DOMAIN task /\ task[k].pc = "merge"
    /\ LET taskFiles == task[k].files
           i == task[k].idx + 1
           last == i = Len(taskFiles)
           progress == <<Event("progress", "Processing image", k, NumTasks, Absent,
                               i, Len(taskFiles))>>
           assembling == IF last
                         THEN <<Event("progress", "Assembling", Absent, Absent, 100,
                                      Absent, Absent)>>
                         ELSE <<>>
       IN  \E rejected \in BOOLEAN, wide \in WidePages(1) :
             /\ rejected => shouldUseSharp(files[taskFiles[i]].ext)
             /\ IF sendProgressThrows
                THEN Throw(k, "send") /\ NoSend
                ELSE IF rejected
                THEN Throw(k, "transform") /\ Send(progress)
                ELSE /\ task' = [task EXCEPT
                           ![k].idx = i,
                           ![k].wide = @ \cup (IF wide = {} THEN {} ELSE {taskFiles[i]}),
                           ![k].dir = @ \cup {TempFile("num", i, taskFiles[i], "W")},
                           ![k].pc = IF last THEN "assemble" ELSE @]
                     /\ Send(progress \o assembling)
    /\ UNCHANGED <<page, rpc, finalPageFiles, files, cfg, hpc, cur, results, response, uploaded, output,
                   conn, nextConn, open>>

\* the packer promise settles; then persist, final thumbnail, cleanup, return
MergeAssemble(k) ==
    /\ k \in DOMAIN task /\ task[k].pc = "assemble" /\ task[k].type = "MERGE"
    /\ \E err \in BOOLEAN :
         IF err
         THEN /\ Packer("MERGE") # NoPacker
              /\ task' = [task EXCEPT ![k].pc = "thrown", ![k].err = "tool",
                                       ![k].packer = Packer("MERGE")]
              /\ UNCHANGED <<output, uploaded>>
         ELSE /\ output' = Persist(k)
              /\ uploaded' = uploaded \ Range(task[k].files)
              /\ task' = [task EXCEPT
                    ![k].pc = "returned", ![k].tempDir = FALSE, ![k].dir = {},
                    ![k].packer = Packer("MERGE"),
                    ![k].res = [name |-> outputFileName(k),
                                pages |-> Len(task[k].files),
                                packed |-> Persisted(k, task[k].dir), ok |-> TRUE]]
    /\ UNCHANGED <<page, rpc, finalPageFiles, files, cfg, hpc, cur, results, response, conn, nextConn,
                   open, events, written>>

\* ------------------------------------------------------- specification
TaskIds == 1..MaxFiles

Handler ==
    \/ ConvertRequest
    \/ LoopResume
    \/ \E k \in TaskIds : ConvertBegin(k)
    \/ \E k \in TaskIds : GetPageCount(k)
    \/ \E k \in TaskIds : ProgressThumbnail(k)
    \/ \E k \in TaskIds : RasterEmit(k)
    \/ \E k \in TaskIds : PollTick(k)
    \/ \E k \in TaskIds : RasterDone(k)
    \/ \E k \in TaskIds : PagesRenumber(k)
    \/ \E k \in TaskIds : Extract(k)
    \/ \E k \in TaskIds : ArchivePage(k)
    \/ \E k \in TaskIds : ConvertAssemble(k)
    \/ \E k \in TaskIds : MergeBegin(k)
    \/ \E k \in TaskIds : MergePage(k)
    \/ \E k \in TaskIds : MergeAssemble(k)
    \/ \E k \in TaskIds : ToolHangs(k)

Channel ==
    \/ EventsOpen
    \/ \E c \in 1..MaxConns : EventsClose(c)

Next == Handler \/ Channel

Spec == Init /\ [][Next]_vars

SpecTask == InitTask /\ [][Handler]_vars

SpecPack == InitPack /\ [][Handler]_vars

SpecSplit == InitSplit /\ [][Handler]_vars

SpecPdf == InitPdf /\ [][Handler]_vars

SpecClassify == InitClassify /\ [][ConvertRequest]_vars

\* one upload batch of a single file, with the identifier's connections
\* opened, reopened and closed at any moment of the request
InitEvents == InitWith({b \in OneTaskBatches : Len(b) = 1}, PlainConfigs)

SpecEvents ==
    InitEvents /\ [][Handler \/ EventsOpen \/ EventsReconnect
                        \/ \E c \in 1..(MaxConns + 1) : EventsClose(c)]_vars

\* ---------------------------------------- src/server.js: POST /convert
\* The handler of src/server.js converts every upload as a PDF, one after the
\* other, with no tasks. It is modelled in the same variables: files, cfg,
\* hpc, cur, results, response, uploaded, output and events as above, and
\* task holds one record per upload, the state of its loop iteration: the
\* position in the iteration, whether its tempDir exists, the child process
\* of the progress thumbnail that is still running, and the poll timer.

\* the head of the iteration of file k: progress event, mkdirSync(tempDir),
\* up to `await getPageCount`
FileBegin(t, k) == [t EXCEPT ![k].pc = "pdfinfo", ![k].tempDir = TRUE]

\* catch of the handler: 500, then the sweep over req.files; the temp
\* directory of the failed file is left in place
PdfCatch(k) ==
    /\ response' = [status |-> 500, files |-> <<>>, error |-> TRUE]
    /\ uploaded' = {}
    /\ hpc' = "done"
    /\ UNCHANGED <<cur, results>>

\* the handler up to its first await
PdfRequest ==
    /\ hpc = "recv"
    /\ IF Len(files) = 0
       THEN /\ response' = [status |-> 400, files |-> <<>>, error |-> TRUE]
            /\ hpc' = "done"
            /\ UNCHANGED <<cur, task, events, written>>
       ELSE /\ task' = FileBegin([i \in DOMAIN files |->
                                [pc |-> "todo", tempDir |-> FALSE, thumb |-> "none",
                                 timer |-> FALSE, effectiveTotalPages |-> 0]], 1)
            /\ cur' = 1
            /\ hpc' = "loop"
            /\ Send(<<Log("Received"),
                    Event("progress", "Analyzing", 1, Len(files), 0, Absent, Absent)>>)
            /\ UNCHANGED response
    /\ UNCHANGED <<page, rpc, finalPageFiles, files, cfg, results, uploaded, output, conn, nextConn,
                   open>>

\* getPageCount settles: page counts, arguments, the progress thumbnail's
\* first child is started and not awaited, the poll timer is set, and the
\* handler awaits the conversion tool
PdfPageCount(k) ==
    /\ hpc = "loop" /\ cur = k /\ k \in DOMAIN task /\ task[k].pc = "pdfinfo"
    /\ \E totalPages \in 0..MaxPages :
         task' = [task EXCEPT
            ![k].pc = "convert",
            ![k].effectiveTotalPages = EffectiveTotalPages(totalPages),
            ![k].timer = totalPages # 0,
            ![k].thumb = IF ~FEATURE_PROGRESS_THUMBNAIL THEN "none"
                         ELSE IF cfg.isOriginal THEN "color" ELSE "gray"]
    /\ Send(<<Log("Pages detected"), Log("Conversion in progress")>>)
    /\ UNCHANGED <<page, rpc, finalPageFiles, files, cfg, hpc, cur, results, response, uploaded,
                   output, conn, nextConn, open>>

\* a tick of progressInterval while the conversion tool runs
PdfPollTick(k) ==
    /\ hpc = "loop" /\ k \in DOMAIN task /\ task[k].timer
    /\ \E currentPages \in 0..MaxPages :
         LET eff == task[k].effectiveTotalPages
             progress == IF eff # 0 THEN Min(100, RoundPct(currentPages, eff)) ELSE 0
         IN  Send(<<Event("progress", "", k, Len(files), progress, currentPages, eff)>>)
    /\ UNCHANGED <<page, rpc, finalPageFiles, files, cfg, hpc, cur, task, results, response,
                   uploaded, output, conn, nextConn, open>>

\* the conversion tool exits: clearInterval; on an error, or when no image
\* was generated, the handler lands in catch; otherwise it renames the pages
\* and awaits the packer
PdfConverted(k) ==
    /\ hpc = "loop" /\ cur = k /\ k \in DOMAIN task /\ task[k].pc = "convert"
    /\ \E outcome \in {"ok", "error", "no images"} :
         IF outcome = "error"
         THEN /\ task' = [task EXCEPT ![k].pc = "thrown", ![k].timer = FALSE]
              /\ PdfCatch(k)
              /\ NoSend
         ELSE /\ Send(<<Event("progress", "Assembling", k, Len(files), 100,
                              task[k].effectiveTotalPages, task[k].effectiveTotalPages)>>)
              /\ IF outcome = "no images"
                 THEN /\ task' = [task EXCEPT ![k].pc = "thrown", ![k].timer = FALSE]
                      /\ PdfCatch(k)
                 ELSE /\ task' = [task EXCEPT ![k].pc = "pack", ![k].timer = FALSE]
                      /\ UNCHANGED <<hpc, cur, results, response, uploaded>>
    /\ UNCHANGED <<page, rpc, finalPageFiles, files, cfg, output, conn, nextConn, open>>

\* the packer exits: on an error the handler lands in catch; otherwise the
\* archive is copied to the output directory and the handler awaits the
\* Result's thumbnail
PdfPacked(k) ==
    /\ hpc = "loop" /\ cur = k /\ k \in DOMAIN task /\ task[k].pc = "pack"
    /\ \E ok \in BOOLEAN :
         IF ok
         THEN /\ task' = [task EXCEPT ![k].pc = "thumb_gen"]
              /\ output' = {o \in output : o.name # <<files[k].base>>}
                              \cup {[name |-> <<files[k].base>>, task |-> k]}
              /\ UNCHANGED <<hpc, cur, results, response, uploaded>>
         ELSE /\ task' = [task EXCEPT ![k].pc = "thrown"]
              /\ PdfCatch(k)
              /\ UNCHANGED output
    /\ UNCHANGED <<page, rpc, finalPageFiles, files, cfg, conn, nextConn, open, events, written>>

\* the Result's thumbnail settles (a failure is caught): rmSync(tempDir),
\* unlinkSync(file.path), results.push; then the next file's iteration up to
\* its getPageCount, or the response after the last file
PdfFinish(k) ==
    /\ hpc = "loop" /\ cur = k /\ k \in DOMAIN task /\ task[k].pc = "thumb_gen"
    /\ results' = Append(results, [name |-> <<files[k].base>>, file |-> k,
                                 pages |-> task[k].effectiveTotalPages])
    /\ uploaded' = uploaded \ {k}
    /\ LET removed == [task EXCEPT ![k].pc = "pushed", ![k].tempDir = FALSE]
       IN  IF k < Len(files)
           THEN /\ task' = FileBegin(removed, k + 1)
                /\ cur' = k + 1
                /\ Send(<<Event("progress", "Analyzing", k + 1, Len(files), 0, Absent,
                                 Absent)>>)
                /\ UNCHANGED <<hpc, response>>
           ELSE /\ task' = removed
                /\ response' = [status |-> 200, files |-> results', error |-> FALSE]
                /\ hpc' = "done"
                /\ NoSend
                /\ UNCHANGED cur
    /\ UNCHANGED <<page, rpc, finalPageFiles, files, cfg, output, conn, nextConn, open>>

\* the callback of a progress-thumbnail child of file k, run by the event
\* loop whenever the child has exited, the handler being at an await or
\* finished. readdirSync(tempDir) throws when the directory is gone, and
\* nothing catches it: the process dies. Otherwise the thumb file is there or
\* not; the gray callback starts the color child, the color callback sends
\* thumbnail-init.
ThumbnailCallback(k) ==
    /\ hpc # "crashed" /\ k \in DOMAIN task /\ task[k].thumb \in {"gray", "color"}
    /\ IF ~task[k].tempDir
       THEN /\ hpc' = "crashed"
            /\ task' = [task EXCEPT ![k].thumb = "threw"]
            /\ NoSend
       ELSE /\ UNCHANGED hpc
            /\ \E found \in BOOLEAN :
                 IF ~found
                 THEN task' = [task EXCEPT ![k].thumb = "no file"] /\ NoSend
                 ELSE IF task[k].thumb = "gray"
                 THEN task' = [task EXCEPT ![k].thumb = "color"] /\ NoSend
                 ELSE /\ task' = [task EXCEPT ![k].thumb = "sent"]
                      /\ Send(<<Event("thumbnail-init", "", Absent, Absent, Absent, Absent,
                                      Absent)>>)
    /\ UNCHANGED <<page, rpc, finalPageFiles, files, cfg, cur, results, response, uploaded,
                   output, conn, nextConn, open>>

PdfHandler ==
    \/ PdfRequest
    \/ \E k \in TaskIds : PdfPageCount(k)
    \/ \E k \in TaskIds : PdfPollTick(k)
    \/ \E k \in TaskIds : PdfConverted(k)
    \/ \E k \in TaskIds : PdfPacked(k)
    \/ \E k \in TaskIds : PdfFinish(k)
    \/ \E k \in TaskIds : ThumbnailCallback(k)

\* uploads of PDF files only, in both modes, with the progress client coming
\* and going
InitPdfOnly ==
    InitWith({b \in Batches : \A i \in DOMAIN b : b[i].ext = "pdf"},
             {c \in PlainConfigs : c.format = ""})

SpecPdfOnly == InitPdfOnly /\ [][PdfHandler \/ Channel]_vars

\* ---------------------------------------------------------- properties
Settled(k) == task[k].pc \in {"returned", "thrown"}

Running(k) == task[k].pc \notin {"idle", "returned", "thrown"}

Responded == hpc = "done" /\ response.status # 400

\* [start, end] clamped to a source of n pages: its size
ClampedRange(n) == Max(0, Min(n, pEnd(n)) - Max(1, pStart) + 1)

Renumbered(dir) == {f \in dir : f.kind = "num"}

\* C1: once the batch has been answered, every task of the list was executed
\* (returned or threw), also those that come after a task that failed.
C1_SiblingsStillRun ==
    Responded => \A k \in DOMAIN task : Settled(k)

\* C2: a batch that ends in error still reports the Results of the tasks that
\* succeeded, next to the indication that the batch failed.
C2_FailedBatchReportsResults ==
    response.status = 500 => response.error /\ response.files = results

\* C3: once the batch has been answered, no temp directory of any of its
\* tasks exists, whether the task returned or threw.
C3_TempDirsRemoved ==
    Responded => \A k \in DOMAIN task : ~task[k].tempDir

\* C4: after classification every uploaded file belongs to exactly one task.
C4_EveryFileInOneTask ==
    hpc = "loop" =>
        \A i \in DOMAIN files :
            Cardinality({k \in DOMAIN task : i \in Range(task[k].files)}) = 1

\* C5: the page count in a task's Result equals the number of renumbered page
\* files that were assembled into its output (stated for the document tasks,
\* where the split and the tool's own image count come in).
C5_ResultPagesMatchAssembled ==
    \A k \in DOMAIN task :
        (task[k].pc = "returned" /\ isPdf(files[task[k].files[1]])) =>
            task[k].res.pages = Cardinality(Renumbered(task[k].res.packed))

\* C6: for a document task in render mode with a known page count and no
\* split, the directory handed to the packer holds exactly the files 1..N,
\* N the effective page count, and nothing else.
C6_PackerGetsExactlyN ==
    \A k \in DOMAIN task :
        ( /\ task[k].type = "CONVERT" /\ isPdf(files[task[k].files[1]])
          /\ ~cfg.isOriginal /\ cfg.splitDouble = "off"
          /\ task[k].totalPages # 0
          /\ task[k].pc = "assemble" )
        => /\ \A f \in task[k].dir : f.kind = "num"
           /\ {f.n : f \in task[k].dir} = 1..ClampedRange(task[k].totalPages)

\* C7: with a known total T the effective page count of a document is
\* max(0, min(T, end) - max(1, start) + 1): 0 when the clamped range is empty.
C7_EffectiveCountClamped ==
    \A k \in DOMAIN task :
        ( /\ task[k].type = "CONVERT" /\ isPdf(files[task[k].files[1]])
          /\ task[k].totalPages # 0 )
        => task[k].effectiveTotalPages = ClampedRange(task[k].totalPages)

\* C8: with the double-page split off, the number of final pages of a task of
\* any kind is the size of the requested range clamped to the real page count
\* of its source (the images of a MERGE task, the pages of a document, the
\* recognized images of an archive).
C8_RangeRestrictsEveryKind ==
    \A k \in DOMAIN task :
        (cfg.splitDouble = "off" /\ task[k].pc = "returned") =>
            Cardinality(Renumbered(task[k].res.packed)) =
                ClampedRange(IF task[k].type = "MERGE"
                             THEN Len(task[k].files) ELSE task[k].T)

\* C9: tasks run one at a time in list order: a task that has made any step
\* has every earlier task settled (returned or thrown) and every later task
\* not yet called; inside a MERGE task the pages written so far are exactly
\* the first idx ones, one after another.
C9_OneTaskAtATime ==
    \A k \in DOMAIN task :
        /\ task[k].pc # "idle" => \A j \in 1..(k - 1) : Settled(j)
        /\ Running(k) => \A j \in (k + 1)..NumTasks : task[j].pc = "idle"
        /\ task[k].pc = "merge" => {f.n : f \in task[k].dir} = 1..task[k].idx

\* C9 witness: the second task is under way after the first returned
C9_Witness ==
    /\ NumTasks >= 2
    /\ task[1].pc = "returned"
    /\ Running(2)

\* C10: whatever the progress client does, no task fails for want of a
\* listener, every recorded Result has its output in the output directory,
\* and a batch none of whose tools failed is answered 200 with all tasks done.
C10_DisconnectHarmless ==
    /\ \A k \in DOMAIN task : task[k].err # "send"
    /\ \A i \in DOMAIN results :
         \E o \in output : o.name = results[i].name
    /\ response.status = 500 =>
         \E k \in DOMAIN task : task[k].err \in {"tool", "empty", "transform"}
    /\ response.status = 200 => Len(response.files) = NumTasks

\* C10 witness: the client left during the batch, the last events were
\* dropped, and the batch still ended with every task's output persisted
C10_Witness ==
    /\ response.status = 200
    /\ NumTasks >= 2
    /\ written # {} /\ conn = 0
    /\ events # <<>> /\ \A i \in DOMAIN events : events[i].to = 0
    /\ \A k \in DOMAIN task : \E o \in output : o.task = k

\* C11: sendProgress without a registered listener drops the event: no task
\* fails for it and activeConnections is left as it was; an event is only ever
\* written to the listener registered at the moment it is sent, and a
\* registration by itself delivers nothing (no buffer, no replay).
C11_DroppedNotReplayed ==
    [][ /\ events' # events =>
             /\ UNCHANGED <<conn, nextConn, open>>
             /\ \A i \in DOMAIN events' : events'[i].to = conn
        /\ written' \subseteq written \cup ({conn} \ {0})
        /\ \A k \in DOMAIN task' : task'[k].err # "send"
        /\ conn' \notin {0, conn} => UNCHANGED <<events, written>> ]_vars

\* C11 witness: events were sent and dropped while nobody listened, then a
\* listener registered and has received nothing
C11_Witness ==
    /\ conn # 0 /\ conn \in open
    /\ written = {}
    /\ events # <<>> /\ \A i \in DOMAIN events : events[i].to = 0
    /\ hpc = "loop"

\* the packers that take a compression level
Leveled == {"zip", "7z", "rar", "rar4"}

Packed(k) == task[k].packer # NoPacker

\* C12: in original mode every packer that takes a level (zip, 7z, rar,
\* rar -ma4) is invoked with level 0, whatever archive compression level the
\* request carries, in CONVERT and in MERGE tasks.
C12_OriginalPacksAtZero ==
    \A k \in DOMAIN task :
        (Packed(k) /\ cfg.isOriginal /\ task[k].packer.tool \in Leveled)
            => task[k].packer.level = 0

\* C12 witness: original mode, level 9 requested, a rar packer was invoked
C12_Witness ==
    /\ cfg.isOriginal /\ cfg.archiveCompression = 9
    /\ \E k \in DOMAIN task :
         /\ task[k].type = "MERGE" /\ task[k].pc = "returned"
         /\ task[k].packer = [tool |-> "rar", level |-> 0]

\* the documented rar scale: logical 0,1,3,5,7,9 -> native 0,1,2,3,4,5
RarNative(l) == IF l = 0 THEN 0 ELSE (l + 1) \div 2

\* C13: outside original mode every rar and rar -ma4 packing, in CONVERT and
\* in MERGE tasks, is invoked with the native level of the documented scale.
C13_RarScale ==
    \A k \in DOMAIN task :
        ( /\ Packed(k) /\ ~cfg.isOriginal
          /\ task[k].packer.tool \in {"rar", "rar4"}
          /\ archCompVal \in {0, 1, 3, 5, 7, 9} )
        => task[k].packer.level = RarNative(archCompVal)

\* the final page sequence of a task that reached assembly
FinalPages(k) == SortByN(Renumbered(task[k].dir))

\* the positions of source page p in the final page sequence
PositionsOf(k, p) == {i \in DOMAIN FinalPages(k) : FinalPages(k)[i].src = p}

\* C14: with split auto outside original mode, every page whose ratio is
\* > 1.2 stands in the final page sequence as its two halves, one right after
\* the other, the right half first under rtl and the left half first under
\* ltr; every other page of the sequence is one unsplit page.
C14_WidePagesSplitInReadingOrder ==
    \A k \in DOMAIN task :
        ( /\ task[k].pc = "assemble"
          /\ cfg.splitDouble = "auto" /\ ~cfg.isOriginal )
        => LET seq == FinalPages(k)
               first == IF cfg.readingDir = "rtl" THEN "R" ELSE "L"
               second == IF cfg.readingDir = "rtl" THEN "L" ELSE "R"
           IN  /\ \A p \in task[k].wide :
                    \E i \in 1..(Len(seq) - 1) :
                        /\ PositionsOf(k, p) = {i, i + 1}
                        /\ seq[i].half = first /\ seq[i + 1].half = second
               /\ \A i \in DOMAIN seq :
                    seq[i].src \notin task[k].wide =>
                        seq[i].half = "W" /\ PositionsOf(k, seq[i].src) = {i}

\* C15: a page the image library fails on never fails its task: no MERGE or
\* archive task ends in a transform error, and such a task reaches assembly
\* with one file for every page it had to process.
C15_PageFailureDegrades ==
    \A k \in DOMAIN task :
        /\ task[k].err # "transform"
        /\ ( /\ task[k].pc = "assemble"
             /\ task[k].type = "MERGE" \/ ~isPdf(files[task[k].files[1]]) )
           => {f.n : f \in Renumbered(task[k].dir)} = 1..task[k].idx

\* the extensions the converter has a procedure for: images, documents,
\* comic archives
SupportedExts == ImageExts \cup {"pdf", "cbz"}

\* C16: a file with an unsupported extension gets no task, so that no
\* extractor, rasterizer or packer ever runs on it.
C16_UnsupportedGetsNoTask ==
    \A k \in DOMAIN task :
        \A i \in Range(task[k].files) : files[i].ext \in SupportedExts

\* C17: an extraction promise that has just settled failed the task exactly
\* when every extractor of its chain failed (rar, unrar and 7z for a rar
\* source); when any of them succeeded the task went on, and its page count
\* is the range clamped to the images found in the extraction directory.
C17_FallbackExtractors ==
    \A k \in DOMAIN task :
        task[k].chain # NoChain =>
            LET allFailed == task[k].chain.failed = Len(task[k].chain.tools)
                found == Cardinality({f \in task[k].dir : f.kind = "img"})
            IN  /\ (task[k].pc = "thrown" /\ task[k].err = "tool") <=> allFailed
                /\ ~allFailed =>
                     /\ task[k].T = found
                     /\ \/ /\ task[k].pc = "transform"
                           /\ task[k].effectiveTotalPages = ClampedRange(found)
                           /\ ClampedRange(found) > 0
                        \/ /\ task[k].pc = "thrown" /\ task[k].err = "empty"
                           /\ ClampedRange(found) = 0

\* C17 witness: rar and unrar failed, 7z succeeded, the task goes on with
\* the images it found
C17_Witness ==
    \E k \in DOMAIN task :
        /\ task[k].chain = [tools |-> <<"rar", "unrar", "7z">>, failed |-> 2]
        /\ task[k].pc = "transform"
        /\ task[k].T = MaxPages /\ task[k].effectiveTotalPages >= 1

\* the page images a CONVERT task resolved: the images the rasterizer left in
\* the temp directory of a document, the in-range images of an archive
Resolved(k) ==
    IF isPdf(files[task[k].files[1]])
    THEN Cardinality({f \in task[k].dir \cup task[k].res.packed :
                         f.kind \in {"page", "num"}})
    ELSE ClampedRange(task[k].T)

\* C18: a CONVERT task gets past its empty check only with at least one
\* resolved page; one that resolved none has failed with the empty-result
\* error, has no Result and has written nothing to the output directory.
C18_EmptyResolutionFails ==
    \A k \in DOMAIN task :
        task[k].type = "CONVERT" =>
            /\ task[k].pc \in {"transform", "assemble", "returned"} => Resolved(k) > 0
            /\ (task[k].pc = "thrown" /\ task[k].err = "empty") => Resolved(k) = 0
            /\ task[k].err = "empty" =>
                 /\ task[k].pc = "thrown"
                 /\ task[k].res = NoResult
                 /\ Len(results) < k
                 /\ ~\E o \in output : o.task = k

\* C18 witness: an archive with images whose page range selects nothing was
\* answered with an error and left no output
C18_Witness ==
    /\ hpc = "done" /\ response.status = 500 /\ output = {}
    /\ \E k \in DOMAIN task :
         task[k].err = "empty" /\ task[k].T >= 1 /\ results = <<>>

\* C19: no task ever waits for good on an external tool: every tool a task
\* invokes is killed at the hard timeout, which fails the task.
C19_ToolsBoundedByTimeout ==
    \A k \in DOMAIN task : task[k].pc # "blocked"

\* the width of n in decimal digits, from the powers of ten
Digits(n) == CHOOSE w \in 1..8 : 10 ^ (w - 1) <= n /\ n < 10 ^ w

\* C20: N renumbered pages carry, in order, the numbers 1..N written with
\* max(3, digits(N)) digits (so they are distinct and sequential), and a
\* second renumbering of the renumbered set changes no name and no position.
C20_RenumberIdempotent ==
    /\ [](rpc \in {"renamed", "merged", "again"} =>
            \A i \in DOMAIN finalPageFiles :
                /\ finalPageFiles[i].prefix = ""
                /\ Len(finalPageFiles[i].digits) = Max(3, Digits(Len(finalPageFiles)))
                /\ parseNum(finalPageFiles[i].digits) = i)
    /\ [][rpc' = "again" => finalPageFiles' = finalPageFiles]_vars

\* C20 witness: a set of more than 999 pages was renumbered twice
C20_Witness ==
    /\ rpc = "again"
    /\ Len(finalPageFiles) >= 1000
    /\ finalPageFiles[1].digits = <<0, 0, 0, 1>>

\* the folders (first path segments) of the upload that hold an image
ImageFolders == {files[i].dir : i \in {j \in DOMAIN files :
                                          files[j].dir # "" /\ isImageFile(files[j])}}

RootImages == {i \in DOMAIN files : files[i].dir = "" /\ isImageFile(files[i])}

RootDocs == {i \in DOMAIN files : files[i].dir = "" /\ ~isImageFile(files[i])}

\* the tasks of the given type whose members are exactly the files in S
TasksOf(type, S) ==
    {k \in DOMAIN task : task[k].type = type /\ Range(task[k].files) = S}

\* C21: the classifier makes exactly one MERGE task per folder holding an
\* image (named after the folder, with the folder's images), exactly one MERGE
\* task with all root images if there is one, one CONVERT task per root file
\* that is not an image, and no other task.
C21_ClassifierTasks ==
    hpc = "loop" =>
        /\ \A d \in ImageFolders :
              LET images == {i \in DOMAIN files :
                                files[i].dir = d /\ isImageFile(files[i])}
              IN  /\ Cardinality(TasksOf("MERGE", images)) = 1
                  /\ \A k \in TasksOf("MERGE", images) : task[k].name = <<d>>
        /\ RootImages # {} => Cardinality(TasksOf("MERGE", RootImages)) = 1
        /\ \A i \in RootDocs : Cardinality(TasksOf("CONVERT", {i})) = 1
        /\ Len(task) = Cardinality(ImageFolders)
                       + (IF RootImages # {} THEN 1 ELSE 0)
                       + Cardinality(RootDocs)

\* C21 witness: two image folders (one of them with a file that is not an
\* image), no root image, one root document
C21_Witness ==
    /\ hpc = "loop"
    /\ Cardinality(ImageFolders) = 2 /\ RootImages = {}
    /\ Cardinality(RootDocs) = 1 /\ Len(task) = 3

\* 0 for the root-image task, 1 for a folder task, 2 for a document task
Kind(k) ==
    IF task[k].type = "CONVERT" THEN 2
    ELSE IF files[task[k].files[1]].dir = "" THEN 0 ELSE 1

\* the upload position that decides the place of task k among its kind: the
\* first file of its folder, or the document itself
Discovered(k) ==
    IF Kind(k) = 1
    THEN CHOOSE i \in DOMAIN files :
            /\ files[i].dir = files[task[k].files[1]].dir
            /\ \A j \in 1..(i - 1) : files[j].dir # files[i].dir
    ELSE task[k].files[1]

\* the place of the folder of task k among the integer folder names (0 when
\* the name is not one)
IndexOf(k) ==
    LET d == files[task[k].files[1]].dir
    IN  IF Kind(k) = 1 /\ d \in Range(IndexKeys)
        THEN CHOOSE n \in DOMAIN IndexKeys : IndexKeys[n] = d
        ELSE 0

\* task k comes before task l among the tasks of one kind: discovery / upload
\* order, and with byIndex the folders with integer names first, ascending
Before(k, l, byIndex) ==
    IF byIndex /\ (IndexOf(k) # 0 \/ IndexOf(l) # 0)
    THEN IndexOf(k) # 0 /\ (IndexOf(l) = 0 \/ IndexOf(k) < IndexOf(l))
    ELSE Discovered(k) < Discovered(l)

\* the tasks come in the order of the given ranks of their kinds, and within
\* a kind in the order Before
OrderedBy(rank, byIndex) ==
    \A k \in DOMAIN task : \A l \in DOMAIN task :
        k < l => \/ rank[Kind(k)] < rank[Kind(l)]
                 \/ Kind(k) = Kind(l) /\ Before(k, l, byIndex)

\* C22 as stated: folder MERGE tasks in discovery order first, then the
\* root-image MERGE task, then the document CONVERT tasks in upload order.
C22_FoldersThenRootImages ==
    hpc = "loop" => OrderedBy([x \in 0..2 |-> IF x = 1 THEN 0 ELSE IF x = 0 THEN 1 ELSE 2], FALSE)

\* C22 amended: the root-image MERGE task first, then the folder MERGE tasks
\* (folders with an integer name in ascending order, then the other folders in
\* discovery order), then the document CONVERT tasks in upload order.
C22_RootImagesThenFolders ==
    hpc = "loop" => OrderedBy([x \in 0..2 |-> x], TRUE)

\* C22 witness: a root-image task uploaded after the first file of a folder,
\* and two folder tasks
C22_Witness ==
    /\ hpc = "loop" /\ Len(task) = 3
    /\ Kind(1) = 0 /\ Kind(2) = 1 /\ Kind(3) = 1
    /\ files[1].dir # ""

\* the extension that names the container a packer writes (none: a folder)
ContainerExt(tool) ==
    CASE tool = "zip" -> <<"cbz">>
      [] tool = "tar" -> <<"cbt">>
      [] tool = "7z" -> <<"cb7">>
      [] tool \in {"rar", "rar4"} -> <<"cbr">>
      [] tool = "pdfkit" -> <<"pdf">>
      [] OTHER -> <<>>

\* C23: the output name of a task is its base name followed by the extension
\* of the container actually produced ('cbr' for the legacy rar, nothing for a
\* folder); a format outside the allowed list gives a zip container named cbz.
C23_NameMatchesContainer ==
    \A k \in DOMAIN task :
        task[k].res.ok =>
            /\ task[k].res.name = task[k].name \o ContainerExt(task[k].packer.tool)
            /\ cfg.format \notin allowedFormats => task[k].packer.tool = "zip"
            /\ cfg.format = "rar4" <=> task[k].packer.tool = "rar4"
            /\ cfg.format = "folder" <=> task[k].packer = NoPacker

\* C23 witness: a task packed under a format that is not in the list
C23_Witness ==
    \E k \in DOMAIN task :
        /\ task[k].res.ok /\ cfg.format \notin allowedFormats
        /\ task[k].res.name = task[k].name \o <<"cbz">>

\* C24: the PDF container of a task has exactly one page per final page, in
\* final page order, whatever the image format and the kind of source: no
\* final page is left out and nothing else is a page.
C24_PdfHoldsEveryFinalPage ==
    [][\A k \in DOMAIN task :
          (task[k].pc = "assemble" /\ task'[k].res.ok /\ safeFormat = "pdf")
              => /\ pdfImages(k, task[k].dir) = FinalPages(k)
                 /\ task'[k].res.packed = Range(FinalPages(k))]_vars

\* C25: when the page count of a document is unknown, the task still
\* succeeds on the pages the rasterizer produced for the range as given: all
\* of them are renumbered and assembled, and the page count of the Result is
\* their number.
C25_UnknownCountPassesThrough ==
    \A k \in DOMAIN task :
        (/\ task[k].res.ok /\ task[k].type = "CONVERT"
         /\ isPdf(files[task[k].files[1]]) /\ task[k].totalPages = 0)
            => LET produced == RequestedPages(task[k].T)
                   numbered == {f \in task[k].res.packed : f.kind = "num"}
               IN  /\ task[k].res.pages = Cardinality(produced)
                   /\ {f.src : f \in numbered} = produced
                   /\ \A f \in task[k].res.packed : f.kind # "page"

\* the page went through the image pipeline of a MERGE or archive task
Piped ==
    /\ page.pc = "done" /\ page.kind \in {"MERGE", "ARCHIVE"}
    /\ \A i \in DOMAIN page.ops : page.ops[i].op # "copy"

HasOp(op) == \E i \in DOMAIN page.ops : page.ops[i].op = op

ResizedTo(w) == \E i \in DOMAIN page.ops : page.ops[i] = [op |-> "resize", arg |-> w]

\* a maximum width is set and the source is wider
Exceeds == cfg.maxWidth > 0 /\ page.width > cfg.maxWidth

\* the density the source counts as having
SourceDensity == IF page.density # 0 THEN page.density ELSE 72

\* a target density is set and is more than 2% away from the source's
Differs ==
    /\ dpiVal # 0
    /\ 100 * (IF dpiVal > SourceDensity THEN dpiVal - SourceDensity
              ELSE SourceDensity - dpiVal) > 2 * SourceDensity

\* the width that brings the source to the target density
DensityWidth == (2 * page.width * dpiVal + SourceDensity) \div (2 * SourceDensity)

\* where an operation stands in the order rotate, resize, grayscale, encode
Stage(op) ==
    CASE op = "rotate" -> 1
      [] op \in {"resize", "density"} -> 2
      [] op = "grayscale" -> 3
      [] OTHER -> 4

StagesInOrder ==
    \A i \in DOMAIN page.ops : \A j \in DOMAIN page.ops :
        i < j => Stage(page.ops[i].op) <= Stage(page.ops[j].op)

\* C26 as stated: the page is downscaled to the maximum width only when one
\* is set and exceeded; in every other case where a target density is set
\* and differs by more than 2% (a maximum width set but not exceeded
\* included) it is rescaled to the target density; rotation, resize,
\* grayscale and re-encoding come in this order.
C26_DensityRescaleUnlessDownscaled ==
    Piped =>
        /\ (cfg.maxWidth > 0 /\ ResizedTo(cfg.maxWidth)) <=> Exceeds
        /\ (~Exceeds /\ Differs) => ResizedTo(DensityWidth)
        /\ (~Exceeds /\ ~Differs) => ~HasOp("resize")
        /\ StagesInOrder

\* C26 amended: the page is downscaled to the maximum width only when one is
\* set and exceeded; it is rescaled to the target density when no maximum
\* width is set and a target density is set and differs by more than 2%; a
\* maximum width that is set but not exceeded leaves the page unresized;
\* rotation, resize, grayscale and re-encoding come in this order.
C26_MaxWidthTakesPrecedence ==
    Piped =>
        /\ (cfg.maxWidth > 0 /\ ResizedTo(cfg.maxWidth)) <=> Exceeds
        /\ (cfg.maxWidth = 0 /\ Differs) => ResizedTo(DensityWidth)
        /\ (~Exceeds /\ ~(cfg.maxWidth = 0 /\ Differs)) => ~HasOp("resize")
        /\ StagesInOrder

\* C26 witness: a rotated, grayscaled page under a maximum width it does
\* not exceed and a target density that differs from its own
C26_Witness ==
    /\ Piped /\ cfg.maxWidth > 0 /\ ~Exceeds /\ Differs
    /\ HasOp("rotate") /\ HasOp("grayscale") /\ HasOp("density")
    /\ ~HasOp("resize")

\* C27: in original mode no page of any source kind is resized, grayscaled or
\* converted to the requested image format, whatever the rotation and the
\* maximum width: a rotation is the only transformation it goes through.
\* (Stated for the sources that are not forced to JPEG, webp and bmp.)
C27_OriginalOnlyRotates ==
    (page.pc = "done" /\ cfg.isOriginal /\ ~isExotic(page.ext)) =>
        \A i \in DOMAIN page.ops : page.ops[i].op \in {"copy", "extract", "rotate"}

\* the phase a CONVERT task is in: 0 not started, 1 analysed and extracting
\* or rendering, 2 assembling and packing, 3 returned, 4 failed or stuck
Phase(t) ==
    CASE t.err # "none" \/ t.pc \in {"thrown", "blocked"} -> 4
      [] t.pc = "idle" -> 0
      [] t.pc = "assemble" -> 2
      [] t.pc = "returned" -> 3
      [] OTHER -> 1

\* the progress events of the given status among evs
Progress(evs, status) ==
    {i \in DOMAIN evs : evs[i].type = "progress" /\ evs[i].status = status}

\* C28: a CONVERT task goes through its phases in order: the 'Analyzing'
\* event (currentPct 0), then extraction or rendering, then the 'Assembling'
\* event (currentPct 100), then packing, persisting and the Result; a failed
\* task goes through no later phase and no Result is recorded for it.
C28_PhasesInOrder ==
    [][\A k \in DOMAIN task :
          task[k].type = "CONVERT" =>
            LET p == Phase(task[k])
                q == Phase(task'[k])
                sent == IF events' # events THEN events' ELSE <<>>
            IN  /\ q >= p
                /\ (q # p /\ q # 4) => q = p + 1
                /\ (p = 0 /\ q = 1) =>
                      /\ sent # <<>> /\ 1 \in Progress(sent, "Analyzing")
                      /\ sent[1].currentPct = 0 /\ sent[1].currentFileIndex = k
                /\ (cur = k /\ Progress(sent, "Analyzing") # {}) => p = 0
                /\ (p = 1 /\ q = 2) =>
                      /\ Len(sent) \in Progress(sent, "Assembling")
                      /\ sent[Len(sent)].currentPct = 100
                /\ (cur = k /\ Progress(sent, "Assembling") # {}) => p = 1 /\ q = 2
                /\ task'[k].res # task[k].res => p = 2 /\ q = 3
                /\ task'[k].packer # task[k].packer => p = 2
                /\ (cur = k /\ output' # output) => p = 2 /\ q = 3
                /\ (cur = k /\ results' # results) =>
                      p = 3 /\ results' = Append(results, task[k].res)
                /\ p = 4 => /\ task'[k] = task[k]
                            /\ UNCHANGED <<results, output>>]_vars

\* C28 witness: a CONVERT task went through every phase and has its Result
C28_Witness ==
    \E k \in DOMAIN task :
        /\ task[k].type = "CONVERT" /\ task[k].pc = "returned"
        /\ task[k].res.ok /\ results = <<task[k].res>>

\* the events of evs that a tick of the polling timer sends
Polls(evs) == {i \in DOMAIN evs : evs[i].type = "progress" /\ evs[i].status = ""}

\* C29: the polling timer of a task exists only while its rasterizer runs:
\* it is cleared when the invocation completes, in success or in failure, and
\* a poll event is only ever sent by the task whose rasterizer is running.
C29_TimerOnlyWhileRasterizing ==
    /\ [](\A k \in DOMAIN task :
            task[k].timer => task[k].pc = "raster" /\ cur = k /\ hpc = "loop")
    /\ [][\A i \in Polls(IF events' # events THEN events' ELSE <<>>) :
            \E k \in DOMAIN task :
               /\ cur = k /\ events'[i].currentFileIndex = k
               /\ task[k].pc = "raster" /\ task'[k].pc = "raster"]_vars

\* C29 witness: the rasterizer of a task has completed after a poll event,
\* and the timer is gone
C29_Witness ==
    \E k \in DOMAIN task :
        /\ task[k].pc = "pages" /\ task[k].totalPages # 0 /\ ~task[k].timer
        /\ Polls(events) # {}

\* C30: with split auto outside original mode, the pages of every kind of
\* source (document, archive, MERGE) are split: the final page count is the
\* number of source pages plus one per wide page.
C30_SplitAddsOnePagePerWidePage ==
    \A k \in DOMAIN task :
        (/\ task[k].res.ok /\ cfg.splitDouble = "auto" /\ ~cfg.isOriginal)
            => LET final == {f \in task[k].res.packed : f.kind = "num"}
                   sources == {f.src : f \in final}
               IN  Cardinality(final)
                      = Cardinality(sources) + Cardinality(task[k].wide \cap sources)

\* C31: for an archive whose sorted image list is L and whose clamped range
\* is [s, e], the output holds exactly e - s + 1 pages, numbered from 001
\* without a gap, page n made from L[s + n - 1], and nothing else of the
\* extraction tree; zero-length images included.
C31_ArchiveRangeIsASlice ==
    \A k \in DOMAIN task :
        (/\ task[k].res.ok /\ task[k].type = "CONVERT"
         /\ ~isPdf(files[task[k].files[1]]))
            => LET effStart == Max(1, pStart)
                   effEnd == Min(task[k].T, pEnd(task[k].T))
                   packed == task[k].res.packed
               IN  /\ \A f \in packed : f.kind = "num" /\ f.src = effStart + f.n - 1
                   /\ {f.n : f \in packed} = 1..(effEnd - effStart + 1)
                   /\ Cardinality(packed) = effEnd - effStart + 1

C33_OutputPathsDistinct ==
    (hpc = "done" /\ response.status = 200) =>
        \A k \in DOMAIN task :
            task[k].res.ok =>
                \E o \in output : o.name = task[k].res.name /\ o.task = k

C35_NewestOpenIsListener == nextConn \in open => conn = nextConn

\* C36: once the request is fully handled (the success response is sent, or
\* the error response is sent and the sweep has run) none of the batch's
\* uploaded source files is left in the upload staging directory, files
\* assigned to no task and files of tasks that never ran included.
C36_NoUploadLeftBehind == hpc = "done" => uploaded = {}

\* C37: in every mode, every progress event has 0 <= currentPct <= 100,
\* 1 <= currentFileIndex <= totalFiles when both are present, and
\* currentPages <= totalPages when both are present.
C37_ProgressFieldsInRange ==
    \A i \in DOMAIN events :
        LET ev == events[i]
        IN  ev.type = "progress" =>
                /\ ev.currentPct # Absent => (0 <= ev.currentPct /\ ev.currentPct <= 100)
                /\ ev.currentFileIndex # Absent =>
                        (1 <= ev.currentFileIndex /\ ev.currentFileIndex <= ev.totalFiles)
                /\ (ev.currentPages # Absent /\ ev.totalPages # Absent) =>
                        ev.currentPages <= ev.totalPages

\* C38: in src/server.js a progress-thumbnail callback never runs after the
\* file's temp directory has been removed: its readdirSync never hits a
\* missing directory (the throw would be uncaught), and thumbnail-init of
\* file k is emitted, if at all, before file k's Result is recorded.
C38_ThumbnailCallbackBeforeCleanup ==
    /\ [](\A k \in DOMAIN task : task[k].thumb # "threw")
    /\ [][\A k \in DOMAIN task :
            (task[k].thumb # "sent" /\ task'[k].thumb = "sent")
                => \A i \in DOMAIN results : results[i].file # k]_vars

====
